---- MODULE Spec2Model ----
(***************************************************************************)
(* Model of mcp-token-bench: the TraceCollector (src/src/traceCollector.ts) *)
(* and the ExperimentRunner that drives it (experiment.ts, first listing   *)
(* of src/src/metrics.test.ts, lines 74-256).                              *)
(***************************************************************************)
EXTENDS Integers, Sequences, FiniteSets, TLC

VARIABLES
  traces,         \* TraceCollector.traces : Map<string, TraceState>
  latestTraceId,  \* TraceCollector.latestTraceId : string | null
  log,            \* history: per registered trace id, the spans delivered under it
  ret,            \* history: what the trailing consumeLatest calls returned
  last,           \* history: the collector method that was called last
  overwritten,    \* history: how many delivered spans' counts that call overwrote
  args,           \* ExperimentRunner.run: its arguments tasks, runsPerTask, modelId
  pc,             \* ExperimentRunner: position of run()/runSingle()
  cur,            \* ExperimentRunner: the execution run() is awaiting
  runs,           \* ExperimentRunner.run: const runs: RunMetrics[]
  exec,           \* the current execution: its trace id, its own spans, its result,
                  \* and how runSingle's forceFlush and consumeLatest calls went
  budget,         \* how many more spans, rejections and usage reports the sweep may see
  allRuns,        \* main: const allRuns: RunMetrics[]
  summary,        \* main: const summary: SummaryFile
  rows,           \* summarizeDiffs: its argument rows: SummaryRow[]
  diffs,          \* summarizeDiffs: what it returned
  interval        \* wilsonInterval: its arguments and what it returned

collectorVars == <<traces, latestTraceId, log, ret, last, overwritten>>
runnerVars == <<args, pc, cur, runs, exec, budget>>
summaryVars == <<allRuns, summary, rows, diffs, interval>>
vars == <<traces, latestTraceId, log, ret, last, overwritten, args, pc, cur, runs, exec,
          budget, allRuns, summary, rows, diffs, interval>>

----------------------------------------------------------------------------
(* Bounds of the model *)

\* span-end events counted by the collector and not yet consumed
MaxSpans == 3

\* size of a sweep: its executions plus the spans, rejections and usage
\* reports the executors and the tracing runtime produce during it
MaxWork == 5

\* RunMetrics records that main collects before it summarises them
MaxRuns == 3

\* SummaryRow records handed to summarizeDiffs
MaxRows == 3

\* the largest total handed to wilsonInterval
MaxTotal == 10

----------------------------------------------------------------------------
(* JavaScript values *)

Undefined == [kind |-> "undefined"]
JsNull == [kind |-> "null"]
JsFalse == [kind |-> "false"]
ErrObj == [kind |-> "object", message |-> "boom"]
Str(s) == [kind |-> "string", s |-> s]
Num(n) == [kind |-> "number", n |-> n]

\* JavaScript truthiness of the values above
Truthy(v) ==
  /\ v.kind \notin {"undefined", "null", "false"}
  /\ v # Str("")
  /\ v # Num(0)

\* a ?? b
Coalesce(a, b) == IF a = Undefined \/ a = JsNull THEN b ELSE a

\* String(n) for a number n
JsString(v) == ToString(v.n)

isRecord(value) == value.kind = "object"

getRecordProp(value, key) ==
  IF isRecord(value) /\ key \in DOMAIN value THEN value[key] ELSE Undefined

getStringProp(value, key) ==
  IF ~isRecord(value) THEN Undefined
  ELSE LET prop == IF key \in DOMAIN value THEN value[key] ELSE Undefined
       IN IF prop.kind = "string" THEN prop ELSE Undefined

\* first of the two id values that is a string or a number, as a string
ResolveId(first, second) ==
  IF first.kind = "string" THEN first
  ELSE IF first.kind = "number" THEN Str(JsString(first))
  ELSE IF second.kind = "string" THEN second
  ELSE IF second.kind = "number" THEN Str(JsString(second))
  ELSE Undefined

getTraceId(value) ==
  ResolveId(getRecordProp(value, "traceId"), getRecordProp(value, "id"))

getSpanTraceId(value) ==
  ResolveId(getRecordProp(value, "traceId"), getRecordProp(value, "trace_id"))

----------------------------------------------------------------------------
(* TraceCollector *)

NoPending == [t \in {} |-> 0]

\* record.pendingErrorsByTool[toolName] ?? 0, for tool names that are not names
\* of members of Object.prototype (for which the lookup on {} is not undefined)
PendingOf(record, toolName) ==
  IF toolName \in DOMAIN record.pendingErrorsByTool
  THEN record.pendingErrorsByTool[toolName] ELSE 0

SetPending(record, toolName, n) ==
  [t \in DOMAIN record.pendingErrorsByTool \cup {toolName} |->
     IF t = toolName THEN n ELSE record.pendingErrorsByTool[t]]

NewTraceState(traceId, trace) ==
  [traceId |-> traceId,
   name |-> getStringProp(trace, "name"),
   toolCallCount |-> 0,
   errors |-> 0,
   retries |-> 0,
   pendingErrorsByTool |-> NoPending]

\* the span's error value: span.error ?? span.toJSON().error
SpanError(span) ==
  LET toJson == getRecordProp(span, "toJSON")
      spanJson == IF toJson.kind = "function" THEN toJson.returns ELSE Undefined
  IN Coalesce(getRecordProp(span, "error"), getRecordProp(spanJson, "error"))

SpanData(span) ==
  Coalesce(getRecordProp(span, "spanData"), getRecordProp(span, "data"))

SpanToolName(span) ==
  LET n == getStringProp(SpanData(span), "name")
  IN IF n = Undefined THEN "unknown" ELSE n.s

\* RetryStep, were a successful call counted as a retry without the test for
\* an unresolved failure
RetryStepUnguarded(record, toolName, error) ==
  IF error
  THEN [record EXCEPT !.pendingErrorsByTool =
          SetPending(record, toolName, PendingOf(record, toolName) + 1)]
  ELSE [record EXCEPT !.retries = @ + 1,
                      !.pendingErrorsByTool =
          SetPending(record, toolName, PendingOf(record, toolName) - 1)]

\* RetryStep, were a later failed call matched to an earlier failure too
RetryStepAnyLater(record, toolName, error) ==
  LET matched == PendingOf(record, toolName) > 0
      left == IF matched THEN PendingOf(record, toolName) - 1 ELSE 0
  IN [record EXCEPT !.retries = IF matched THEN @ + 1 ELSE @,
                    !.pendingErrorsByTool =
                       IF error THEN SetPending(record, toolName, left + 1)
                       ELSE IF matched THEN SetPending(record, toolName, left)
                       ELSE @]

\* RetryStep, were the pending failure not taken off when it is resolved
RetryStepNoDecrement(record, toolName, error) ==
  IF error
  THEN [record EXCEPT !.pendingErrorsByTool =
          SetPending(record, toolName, PendingOf(record, toolName) + 1)]
  ELSE IF PendingOf(record, toolName) > 0
  THEN [record EXCEPT !.retries = @ + 1]
  ELSE record

\* RetryStep, were the unresolved failures counted under one key for all tools
RetryStepAnyTool(record, toolName, error) ==
  IF error
  THEN [record EXCEPT !.pendingErrorsByTool =
          SetPending(record, "tool", PendingOf(record, "tool") + 1)]
  ELSE IF PendingOf(record, "tool") > 0
  THEN [record EXCEPT !.retries = @ + 1,
                      !.pendingErrorsByTool =
          SetPending(record, "tool", PendingOf(record, "tool") - 1)]
  ELSE record

\* RetryStep, were the test for an unresolved failure off by one
RetryStepOffByOne(record, toolName, error) ==
  IF error
  THEN [record EXCEPT !.pendingErrorsByTool =
          SetPending(record, toolName, PendingOf(record, toolName) + 1)]
  ELSE IF PendingOf(record, toolName) > 1
  THEN [record EXCEPT !.retries = @ + 1,
                      !.pendingErrorsByTool =
          SetPending(record, toolName, PendingOf(record, toolName) - 1)]
  ELSE record

\* the retry-inference step of onSpanEnd for one function span
RetryStep(record, toolName, error) ==
  IF error
  THEN [record EXCEPT !.pendingErrorsByTool =
          SetPending(record, toolName, PendingOf(record, toolName) + 1)]
  ELSE IF PendingOf(record, toolName) > 0
  THEN [record EXCEPT !.retries = @ + 1,
                      !.pendingErrorsByTool =
          SetPending(record, toolName, PendingOf(record, toolName) - 1)]
  ELSE record

\* CountSpan, were the error counted inside the test for a function span
CountSpanToolErrors(record, span) ==
  LET error == Truthy(SpanError(span))
  IN IF getStringProp(SpanData(span), "type") = Str("function")
     THEN RetryStep([record EXCEPT !.toolCallCount = @ + 1,
                                   !.errors = IF error THEN @ + 1 ELSE @],
                    SpanToolName(span), error)
     ELSE record

\* CountSpan, were every span counted as a tool call, whatever its type
CountSpanAnyType(record, span) ==
  LET error == Truthy(SpanError(span))
      r1 == IF error THEN [record EXCEPT !.errors = @ + 1] ELSE record
  IN RetryStep([r1 EXCEPT !.toolCallCount = @ + 1], SpanToolName(span), error)

\* onSpanEnd from the point where the record has been found
CountSpan(record, span) ==
  LET error == Truthy(SpanError(span))
      r1 == IF error THEN [record EXCEPT !.errors = @ + 1] ELSE record
  IN IF getStringProp(SpanData(span), "type") = Str("function")
     THEN RetryStep([r1 EXCEPT !.toolCallCount = @ + 1], SpanToolName(span), error)
     ELSE r1

\* SpanRecordKey, were the span counted for the latest trace
SpanRecordKeyLatest(span) ==
  IF Truthy(latestTraceId) /\ latestTraceId.s \in DOMAIN traces
  THEN latestTraceId ELSE Undefined

\* the key of the record onSpanEnd updates, or Undefined when the span is dropped
SpanRecordKey(span) ==
  LET traceId == getSpanTraceId(span)
  IN IF Truthy(traceId) /\ traceId.s \in DOMAIN traces THEN traceId ELSE Undefined

\* what consumeLatest returns: the latest trace's metrics, or null
MetricsOf(record) ==
  [kind |-> "object",
   traceId |-> record.traceId,
   name |-> record.name,
   toolCallCount |-> record.toolCallCount,
   errors |-> record.errors,
   retries |-> record.retries]

ConsumeResult ==
  IF ~Truthy(latestTraceId) THEN JsNull
  ELSE IF latestTraceId.s \notin DOMAIN traces THEN JsNull
  ELSE MetricsOf(traces[latestTraceId.s])

\* ConsumeTraces, were the state not deleted
ConsumeTracesKeep == traces

\* ConsumeTraces, were the whole map cleared
ConsumeTracesClear ==
  IF ConsumeResult = JsNull THEN traces ELSE [t \in {} |-> 0]

\* the map after consumeLatest
ConsumeTraces ==
  IF ConsumeResult = JsNull THEN traces
  ELSE [t \in DOMAIN traces \ {latestTraceId.s} |-> traces[t]]

----------------------------------------------------------------------------
(* History: the spans delivered under each registered trace's id, what the  *)
(* trailing consecutive consumeLatest calls returned (the last two), and   *)
(* the name of the collector method called last                            *)

\* what the tracing runtime says of a span: a tool call or not, the tool, failed or not
LogEntry(span) ==
  [fn |-> getStringProp(SpanData(span), "type") = Str("function"),
   tool |-> SpanToolName(span),
   err |-> Truthy(SpanError(span))]

RECURSIVE SumLen(_, _)
SumLen(f, S) ==
  IF S = {} THEN 0
  ELSE LET t == CHOOSE x \in S : TRUE IN Len(f[t]) + SumLen(f, S \ {t})

LoggedSpans == SumLen(log, DOMAIN log)

\* the delivered spans of the trace registered under traceId so far, whose
\* counts an onTraceStart for that id replaces
Overwritten(traceId) ==
  IF traceId.s \in DOMAIN log THEN Len(log[traceId.s]) ELSE 0

\* the span is logged under the id it carries, whatever record the collector updates
LogSpan(span) ==
  LET id == getSpanTraceId(span)
  IN IF Truthy(id) /\ id.s \in DOMAIN log
     THEN [log EXCEPT ![id.s] = Append(@, LogEntry(span))]
     ELSE log

----------------------------------------------------------------------------
(* Collector calls *)

\* CollectorTraceStart, were the state of an id that is registered kept
CollectorTraceStartKeeps(trace) ==
  LET traceId == getTraceId(trace)
  IN IF ~Truthy(traceId)
     THEN /\ UNCHANGED <<traces, latestTraceId, log>>
          /\ ret' = << >>
          /\ last' = "onTraceStart"
          /\ overwritten' = 0
     ELSE /\ latestTraceId' = traceId
          /\ traces' = [t \in DOMAIN traces \cup {traceId.s} |->
                          IF t \in DOMAIN traces THEN traces[t]
                          ELSE NewTraceState(traceId.s, trace)]
          /\ log' = [t \in DOMAIN log \cup {traceId.s} |->
                          IF t = traceId.s THEN << >> ELSE log[t]]
          /\ ret' = << >>
          /\ last' = "onTraceStart"
          /\ overwritten' = Overwritten(traceId)

\* CollectorTraceStart, were latestTraceId assigned before the id is tested
CollectorTraceStartSetsLatest(trace) ==
  LET traceId == getTraceId(trace)
  IN IF ~Truthy(traceId)
     THEN /\ UNCHANGED <<traces, log>>
          /\ latestTraceId' = traceId
          /\ ret' = << >>
          /\ last' = "onTraceStart"
          /\ overwritten' = 0
     ELSE /\ latestTraceId' = traceId
          /\ traces' = [t \in DOMAIN traces \cup {traceId.s} |->
                          IF t = traceId.s THEN NewTraceState(traceId.s, trace)
                          ELSE traces[t]]
          /\ log' = [t \in DOMAIN log \cup {traceId.s} |->
                          IF t = traceId.s THEN << >> ELSE log[t]]
          /\ ret' = << >>
          /\ last' = "onTraceStart"
          /\ overwritten' = Overwritten(traceId)

CollectorTraceStart(trace) ==
  LET traceId == getTraceId(trace)
  IN IF ~Truthy(traceId)
     THEN /\ UNCHANGED <<traces, latestTraceId, log>>
          /\ ret' = << >>
          /\ last' = "onTraceStart"
          /\ overwritten' = 0
     ELSE /\ latestTraceId' = traceId
          /\ traces' = [t \in DOMAIN traces \cup {traceId.s} |->
                          IF t = traceId.s THEN NewTraceState(traceId.s, trace)
                          ELSE traces[t]]
          /\ log' = [t \in DOMAIN log \cup {traceId.s} |->
                          IF t = traceId.s THEN << >> ELSE log[t]]
          /\ ret' = << >>
          /\ last' = "onTraceStart"
          /\ overwritten' = Overwritten(traceId)

\* CollectorSpanEnd, were the latest pointer moved to the trace of the span
CollectorSpanEndSetsLatest(span) ==
  LET key == SpanRecordKey(span)
  IN /\ traces' = IF key = Undefined THEN traces
                  ELSE [traces EXCEPT ![key.s] = CountSpan(traces[key.s], span)]
     /\ log' = LogSpan(span)
     /\ (key # Undefined \/ LogSpan(span) # log) => LoggedSpans < MaxSpans
     /\ ret' = << >>
     /\ last' = "onSpanEnd"
     /\ overwritten' = 0
     /\ latestTraceId' = IF key = Undefined THEN latestTraceId ELSE key

\* CollectorSpanEnd, were a state created for a span whose id has none
CollectorSpanEndCreates(span) ==
  LET id == getSpanTraceId(span)
      known == IF Truthy(id) /\ id.s \notin DOMAIN traces
               THEN [t \in DOMAIN traces \cup {id.s} |->
                       IF t = id.s THEN NewTraceState(id.s, Undefined) ELSE traces[t]]
               ELSE traces
  IN /\ traces' = IF ~Truthy(id) THEN traces
                  ELSE [known EXCEPT ![id.s] = CountSpan(known[id.s], span)]
     /\ log' = LogSpan(span)
     /\ LogSpan(span) # log => LoggedSpans < MaxSpans
     /\ ret' = << >>
     /\ last' = "onSpanEnd"
     /\ overwritten' = 0
     /\ UNCHANGED latestTraceId

CollectorSpanEnd(span) ==
  LET key == SpanRecordKey(span)
  IN /\ traces' = IF key = Undefined THEN traces
                  ELSE [traces EXCEPT ![key.s] = CountSpan(traces[key.s], span)]
     /\ log' = LogSpan(span)
     /\ (key # Undefined \/ LogSpan(span) # log) => LoggedSpans < MaxSpans
     /\ ret' = << >>
     /\ last' = "onSpanEnd"
     /\ overwritten' = 0
     /\ UNCHANGED latestTraceId

CollectorConsume ==
  /\ ret' = IF Len(ret) = 2 THEN <<ret[2], ConsumeResult>>
            ELSE Append(ret, ConsumeResult)
  /\ traces' = ConsumeTraces
  /\ log' = [t \in DOMAIN ConsumeTraces |-> log[t]]
  /\ last' = "consumeLatest"
  /\ overwritten' = 0
  /\ UNCHANGED latestTraceId

----------------------------------------------------------------------------
(* Inputs of the collector: trace and span objects of the tracing runtime *)

\* the two id fields of a trace (traceId, id) or of a span (traceId, trace_id)
IdPairs ==
  {<<Str("1"), Undefined>>, <<Str("2"), Undefined>>, <<Num(1), Undefined>>,
   <<Undefined, Num(2)>>, <<JsNull, Str("1")>>, <<Str(""), Num(2)>>,
   <<Undefined, Undefined>>}

TraceOf(p, n) == [kind |-> "object", traceId |-> p[1], id |-> p[2], name |-> n]

TraceInputs ==
  {TraceOf(p, Str("wf")) : p \in IdPairs}
  \cup {TraceOf(<<Str("2"), Undefined>>, n) : n \in {Undefined, Num(7)}}

DataOf(type, name) == [kind |-> "object", type |-> type, name |-> name]

DataInputs ==
  {DataOf(Str("function"), Str("X")),
   DataOf(Str("function"), Str("unknown")),
   DataOf(Str("function"), Undefined),
   DataOf(Str("generation"), Undefined)}

ToJson(error) ==
  [kind |-> "function", returns |-> [kind |-> "object", error |-> error]]

SpanOf(p, sd, d, e, j) ==
  [kind |-> "object", traceId |-> p[1], trace_id |-> p[2],
   spanData |-> sd, data |-> d, error |-> e, toJSON |-> j]

SpanInputs ==
  \* every kind of span, for the two ids in their plain form
  {SpanOf(p, sd, Undefined, e, Undefined) :
     p \in {<<Str("1"), Undefined>>, <<Str("2"), Undefined>>},
     sd \in DataInputs, e \in {JsNull, ErrObj}}
  \cup
  \* every form of the id fields
  {SpanOf(p, DataOf(Str("function"), Str("X")), Undefined, ErrObj, Undefined) :
     p \in IdPairs}
  \cup
  \* the fallbacks: span.data for span.spanData, toJSON().error for span.error
  {SpanOf(<<Str("1"), Undefined>>, Undefined, DataOf(Str("function"), Str("X")),
          e, ToJson(ErrObj)) : e \in {Undefined, JsFalse}}
  \cup
  {SpanOf(<<Str("1"), Undefined>>, DataOf(Str("generation"), Undefined),
          DataOf(Str("function"), Str("X")), JsNull, ToJson(JsNull))}

----------------------------------------------------------------------------
(* The collector on its own: any sequence of calls *)

NoExec == [traceId |-> Undefined, own |-> << >>, result |-> Undefined, calls |-> << >>]

RunnerIdle ==
  /\ args = [tasks |-> << >>, runsPerTask |-> 0, modelId |-> "default"]
  /\ pc = "idle"
  /\ cur = [task |-> 1, runIndex |-> 0, agent |-> "mcp"]
  /\ runs = << >>
  /\ exec = NoExec
  /\ budget = 0

InitCollector ==
  /\ traces = [t \in {} |-> 0]
  /\ latestTraceId = JsNull
  /\ log = [t \in {} |-> << >>]
  /\ ret = << >>
  /\ last = "none"
  /\ overwritten = 0

onTraceStart ==
  /\ \E trace \in TraceInputs : CollectorTraceStart(trace)
  /\ UNCHANGED <<runnerVars, summaryVars>>

onSpanEnd ==
  /\ \E span \in SpanInputs : CollectorSpanEnd(span)
  /\ UNCHANGED <<runnerVars, summaryVars>>

consumeLatest ==
  /\ CollectorConsume
  /\ UNCHANGED <<runnerVars, summaryVars>>

\* main has not collected any run yet
NoSummary ==
  /\ allRuns = << >>
  /\ summary = Undefined
  /\ rows = << >>
  /\ diffs = Undefined
  /\ interval = Undefined

InitC == InitCollector /\ RunnerIdle /\ NoSummary

NextC == onTraceStart \/ onSpanEnd \/ consumeLatest

SpecCollector == InitC /\ [][NextC]_vars

\* the same, with consumeLatest called again and again, as the runner does
\* after every execution
SpecCollectorFair == InitC /\ [][NextC]_vars /\ WF_vars(consumeLatest)

----------------------------------------------------------------------------
(* ExperimentRunner *)

\* the task ids of tasks.ts, in list order
AllTasks ==
  <<"filesystem.read.sample", "filesystem.search.tokens", "github.list.repo",
    "github.search.code", "search.web.mcp", "search.local.coffee">>

\* trace?.field ?? dflt
TraceField(trace, field, dflt) ==
  IF trace = JsNull THEN dflt ELSE trace[field]

\* UsageField, were the default taken with || instead of ??
UsageFieldOr(usage, field, dflt) ==
  LET v == getRecordProp(usage, field)
  IN IF v = Undefined \/ v = JsNull \/ v = Num(0) THEN dflt ELSE v.n

\* usage.field ?? dflt
UsageField(usage, field, dflt) ==
  LET v == getRecordProp(usage, field)
  IN IF v = Undefined \/ v = JsNull THEN dflt ELSE v.n

\* (result as RunResult)?.state?.usage ?? {}
UsageOf(result) ==
  Coalesce(getRecordProp(getRecordProp(result, "state"), "usage"),
           [kind |-> "object"])

\* the record runSingle returns from its try block
SuccessRecord(c, modelId, result, trace) ==
  LET usage == UsageOf(result)
      promptTokens == UsageField(usage, "inputTokens", 0)
      completionTokens == UsageField(usage, "outputTokens", 0)
      totalTokens == UsageField(usage, "totalTokens", promptTokens + completionTokens)
  IN [taskId |-> args.tasks[c.task],
      model |-> modelId,
      agent |-> c.agent,
      runIndex |-> c.runIndex,
      totalTokens |-> totalTokens,
      promptTokens |-> promptTokens,
      completionTokens |-> completionTokens,
      toolCallCount |-> TraceField(trace, "toolCallCount", 0),
      retries |-> TraceField(trace, "retries", 0),
      errors |-> TraceField(trace, "errors", 0),
      success |-> TRUE,
      errorMessage |-> Undefined]

\* the record runSingle returns from its catch block
FailureRecord(c, modelId, trace) ==
  [taskId |-> args.tasks[c.task],
   model |-> modelId,
   agent |-> c.agent,
   runIndex |-> c.runIndex,
   totalTokens |-> 0,
   promptTokens |-> 0,
   completionTokens |-> 0,
   toolCallCount |-> TraceField(trace, "toolCallCount", 0),
   retries |-> TraceField(trace, "retries", 0),
   errors |-> TraceField(trace, "errors", 1),
   success |-> FALSE,
   errorMessage |-> Str("rejected")]

\* NextCur, were the loop over the agents outside the loop over the run indexes
NextCurRunsInner(c) ==
  IF c.runIndex + 1 < args.runsPerTask THEN [c EXCEPT !.runIndex = @ + 1]
  ELSE IF c.agent = "mcp" THEN [c EXCEPT !.runIndex = 0, !.agent = "cli"]
  ELSE [task |-> c.task + 1, runIndex |-> 0, agent |-> "mcp"]

\* the loops of run(): mcp, then cli, then the next run index, then the next task
NextCur(c) ==
  IF c.agent = "mcp" THEN [c EXCEPT !.agent = "cli"]
  ELSE IF c.runIndex + 1 < args.runsPerTask
  THEN [c EXCEPT !.runIndex = @ + 1, !.agent = "mcp"]
  ELSE [task |-> c.task + 1, runIndex |-> 0, agent |-> "mcp"]

Awaiting == pc \in {"runTask", "stream", "tryFlush", "catchFlush"}

\* run(tasks, runsPerTask, modelId) is called
InitRunner ==
  /\ \E n \in 0..Len(AllTasks), r \in 1..MaxWork :
       /\ 2 * n * r <= MaxWork
       /\ args = [tasks |-> SubSeq(AllTasks, 1, n), runsPerTask |-> r,
                  modelId |-> "default"]
       /\ budget = MaxWork - 2 * n * r
  /\ pc = "loop"
  /\ cur = [task |-> 1, runIndex |-> 0, agent |-> "mcp"]
  /\ runs = << >>
  /\ exec = NoExec

\* run() calls runSingle, which calls the agent's runTask
RunSingle ==
  /\ pc = "loop"
  /\ cur.task <= Len(args.tasks)
  /\ pc' = "runTask"
  /\ exec' = NoExec
  /\ UNCHANGED <<collectorVars, summaryVars, args, cur, runs, budget>>

\* run() leaves its loops and returns runs
RunReturn ==
  /\ pc = "loop"
  /\ cur.task > Len(args.tasks)
  /\ pc' = "done"
  /\ UNCHANGED <<collectorVars, summaryVars, args, cur, runs, exec, budget>>

\* the tracing runtime starts the execution's trace, under an id of its own
ExecTraceStart ==
  /\ pc \in {"runTask", "stream"}
  /\ exec.traceId = Undefined
  /\ LET id == Str(ToString(Len(runs) + 1))
     IN /\ CollectorTraceStart(TraceOf(<<id, Undefined>>, Str("mcp-bench")))
        /\ exec' = [exec EXCEPT !.traceId = id]
  /\ UNCHANGED <<summaryVars, args, pc, cur, runs, budget>>

\* the spans the tracing runtime may end during the current execution: its own
\* (once its trace has started), and spans that are not of a trace of the sweep
ExecSpanInputs ==
  {SpanOf(p, sd, Undefined, e, Undefined) :
     p \in (IF exec.traceId = Undefined THEN {}
            ELSE {<<exec.traceId, Undefined>>})
           \cup {<<Str("0"), Undefined>>, <<Undefined, Undefined>>},
     sd \in {DataOf(Str("function"), Str("X"))}, e \in {JsNull, ErrObj}}
  \cup
  {SpanOf(<<exec.traceId, Undefined>>, DataOf(Str("generation"), Undefined),
          Undefined, ErrObj, Undefined)}

ExecSpanEnd ==
  /\ Awaiting
  /\ budget > 0
  /\ \E span \in ExecSpanInputs :
       /\ CollectorSpanEnd(span)
       /\ exec' = [exec EXCEPT !.own =
                     IF exec.traceId # Undefined /\ getSpanTraceId(span) = exec.traceId
                     THEN Append(@, LogEntry(span)) ELSE @]
  /\ budget' = budget - 1
  /\ UNCHANGED <<summaryVars, args, pc, cur, runs>>

UsageOfTokens(i, o, t) ==
  [kind |-> "object", inputTokens |-> i, outputTokens |-> o, totalTokens |-> t]

ResultInputs ==
  {[kind |-> "object", state |-> [kind |-> "object", usage |-> u]] :
     u \in {UsageOfTokens(Num(3), Num(4), Undefined),
            UsageOfTokens(Num(3), Undefined, Num(9)),
            UsageOfTokens(Undefined, Num(4), Undefined),
            UsageOfTokens(Num(3), Num(4), Num(0))}}

\* runTask resolves with the streamed result
ExecResolve ==
  /\ pc = "runTask"
  /\ \/ /\ exec' = [exec EXCEPT !.result = [kind |-> "object"]]
        /\ UNCHANGED budget
     \/ /\ budget > 0
        /\ budget' = budget - 1
        /\ \E result \in ResultInputs : exec' = [exec EXCEPT !.result = result]
  /\ pc' = "stream"
  /\ UNCHANGED <<collectorVars, summaryVars, args, cur, runs>>

\* runTask rejects
ExecReject ==
  /\ pc = "runTask"
  /\ budget > 0
  /\ budget' = budget - 1
  /\ pc' = "catchFlush"
  /\ UNCHANGED <<collectorVars, summaryVars, args, cur, runs, exec>>

\* awaitStreamCompletion: result.completed resolves
StreamResolve ==
  /\ pc = "stream"
  /\ pc' = "tryFlush"
  /\ UNCHANGED <<collectorVars, summaryVars, args, cur, runs, exec, budget>>

\* awaitStreamCompletion: result.completed rejects
StreamReject ==
  /\ pc = "stream"
  /\ budget > 0
  /\ budget' = budget - 1
  /\ pc' = "catchFlush"
  /\ UNCHANGED <<collectorVars, summaryVars, args, cur, runs, exec>>

\* try: forceFlush resolves; consumeLatest; the record is returned and pushed
TryFlushed ==
  /\ pc = "tryFlush"
  /\ CollectorConsume
  /\ runs' = Append(runs, SuccessRecord(cur, args.modelId, exec.result, ConsumeResult))
  /\ cur' = NextCur(cur)
  /\ pc' = "loop"
  /\ exec' = [exec EXCEPT !.calls = @ \o <<"flushed", "consumeLatest">>]
  /\ UNCHANGED <<summaryVars, args, budget>>

\* try: forceFlush rejects
TryFlushReject ==
  /\ pc = "tryFlush"
  /\ budget > 0
  /\ budget' = budget - 1
  /\ pc' = "catchFlush"
  /\ exec' = [exec EXCEPT !.calls = Append(@, "flushRejected")]
  /\ UNCHANGED <<collectorVars, summaryVars, args, cur, runs>>

\* catch: forceFlush resolves; consumeLatest; the record is returned and pushed
CatchFlushed ==
  /\ pc = "catchFlush"
  /\ CollectorConsume
  /\ runs' = Append(runs, FailureRecord(cur, args.modelId, ConsumeResult))
  /\ cur' = NextCur(cur)
  /\ pc' = "loop"
  /\ exec' = [exec EXCEPT !.calls = @ \o <<"flushed", "consumeLatest">>]
  /\ UNCHANGED <<summaryVars, args, budget>>

\* catch: forceFlush rejects, so runSingle rejects and run() with it
CatchFlushReject ==
  /\ pc = "catchFlush"
  /\ budget > 0
  /\ budget' = budget - 1
  /\ pc' = "rejected"
  /\ exec' = [exec EXCEPT !.calls = Append(@, "flushRejected")]
  /\ UNCHANGED <<collectorVars, summaryVars, args, cur, runs>>

Init == InitCollector /\ InitRunner /\ NoSummary

Next ==
  \/ RunSingle
  \/ RunReturn
  \/ ExecTraceStart
  \/ ExecSpanEnd
  \/ ExecResolve
  \/ ExecReject
  \/ StreamResolve
  \/ StreamReject
  \/ TryFlushed
  \/ TryFlushReject
  \/ CatchFlushed
  \/ CatchFlushReject

Spec == Init /\ [][Next]_vars

----------------------------------------------------------------------------
(* Metrics aggregation (metrics.ts), as main calls it on the collected runs. *)
(* A string is a sequence of pieces: words, and the character ":" on its    *)
(* own, so that the key separator "::" is two pieces. A number is an exact *)
(* fraction in lowest terms.                                               *)

RECURSIVE Gcd(_, _)
Gcd(a, b) == IF b = 0 THEN a ELSE Gcd(b, a % b)

\* n / d for a number n >= 0 and d > 0
Quot(n, d) == [num |-> n \div Gcd(n, d), den |-> d \div Gcd(n, d)]

RECURSIVE SumSeq(_)
SumSeq(values) ==
  IF values = << >> THEN 0 ELSE values[1] + SumSeq(Tail(values))

\* average, were the sum divided by one less than the number of values
averageOneLess(values) ==
  IF Len(values) = 0 THEN Quot(0, 1)
  ELSE IF Len(values) = 1 THEN Quot(SumSeq(values), 1)
  ELSE Quot(SumSeq(values), Len(values) - 1)

average(values) ==
  IF Len(values) = 0 THEN Quot(0, 1) ELSE Quot(SumSeq(values), Len(values))

\* `${run.taskId}::${run.agent}`
RunKey(run) == run.taskId \o <<":", ":">> \o run.agent

\* text.split("::") from piece i on, part being the pieces since the last separator
RECURSIVE SplitFrom(_, _, _)
SplitFrom(text, i, part) ==
  IF i > Len(text) THEN <<part>>
  ELSE IF i < Len(text) /\ text[i] = ":" /\ text[i + 1] = ":"
  THEN <<part>> \o SplitFrom(text, i + 2, << >>)
  ELSE SplitFrom(text, i + 1, Append(part, text[i]))

Split(text) == SplitFrom(text, 1, << >>)

\* the keys of byTaskAgent in insertion order: the order of their first run
RECURSIVE KeyOrder(_)
KeyOrder(runList) ==
  IF runList = << >> THEN << >>
  ELSE LET before == KeyOrder(SubSeq(runList, 1, Len(runList) - 1))
           key == RunKey(runList[Len(runList)])
       IN IF \E i \in 1..Len(before) : before[i] = key THEN before
          ELSE Append(before, key)

\* byTaskAgent.get(key): the runs of the key, in input order
Entries(runList, key) == SelectSeq(runList, LAMBDA run : RunKey(run) = key)

\* entries.map((run) => run[field])
FieldOf(entries, field) == [i \in 1..Len(entries) |-> entries[i][field]]

SummaryRowOf(key, entries) ==
  [taskId |-> Split(key)[1],
   agent |-> Split(key)[2],
   runs |-> Len(entries),
   avgTotalTokens |-> average(FieldOf(entries, "totalTokens")),
   avgPromptTokens |-> average(FieldOf(entries, "promptTokens")),
   avgCompletionTokens |-> average(FieldOf(entries, "completionTokens")),
   avgToolCallCount |-> average(FieldOf(entries, "toolCallCount")),
   avgRetries |-> average(FieldOf(entries, "retries")),
   avgErrors |-> average(FieldOf(entries, "errors")),
   avgDurationMs |-> average(FieldOf(entries, "durationMs"))]

summarizeRuns(runList) ==
  [i \in 1..Len(KeyOrder(runList)) |->
     SummaryRowOf(KeyOrder(runList)[i], Entries(runList, KeyOrder(runList)[i]))]

\* a / b, a - b and a * 100 for numbers a, b (b # 0 in a / b), with numbers
\* taken as exact fractions in lowest terms: the rounding of doubles is left out
Abs(n) == IF n < 0 THEN -n ELSE n

Frac(n, d) ==
  LET g == Gcd(Abs(n), Abs(d))
      sign == IF d < 0 THEN -1 ELSE 1
  IN [num |-> sign * (n \div g), den |-> sign * (d \div g)]

Minus(a, b) == Frac(a.num * b.den - b.num * a.den, a.den * b.den)

Over(a, b) == Frac(a.num * b.den, a.den * b.num)

Times100(a) == Frac(a.num * 100, a.den)

\* the metrics of summarizeDiffs, in its order
DiffMetrics ==
  <<"avgTotalTokens", "avgPromptTokens", "avgCompletionTokens", "avgToolCallCount",
    "avgRetries", "avgErrors", "avgDurationMs">>

\* the keys of byTask in insertion order: the order of their first row
RECURSIVE TaskOrder(_)
TaskOrder(rowList) ==
  IF rowList = << >> THEN << >>
  ELSE LET before == TaskOrder(SubSeq(rowList, 1, Len(rowList) - 1))
           taskId == rowList[Len(rowList)].taskId
       IN IF \E i \in 1..Len(before) : before[i] = taskId THEN before
          ELSE Append(before, taskId)

\* SlotOf, were a slot written only when it is still empty
SlotOfFirst(rowList, taskId, mcp) ==
  LET S == {i \in 1..Len(rowList) :
              /\ rowList[i].taskId = taskId
              /\ (rowList[i].agent = <<"mcp">>) = mcp}
  IN IF S = {} THEN Undefined
     ELSE rowList[CHOOSE i \in S : \A j \in S : i <= j]

\* entry.mcp (mcp = TRUE) or entry.cli of the task's entry of byTask after the
\* first loop: the last row assigned to the slot, a row whose agent is not
\* "mcp" being assigned to entry.cli
SlotOf(rowList, taskId, mcp) ==
  LET S == {i \in 1..Len(rowList) :
              /\ rowList[i].taskId = taskId
              /\ (rowList[i].agent = <<"mcp">>) = mcp}
  IN IF S = {} THEN Undefined
     ELSE rowList[CHOOSE i \in S : \A j \in S : j <= i]

\* DiffOf, were the difference taken the other way round
DiffOfReversed(taskId, metric, mcp, cli) ==
  LET mcpValue == mcp[metric]
      cliValue == cli[metric]
      delta == Minus(mcpValue, cliValue)
  IN [taskId |-> taskId,
      metric |-> metric,
      mcp |-> mcpValue,
      cli |-> cliValue,
      delta |-> delta,
      percentChange |-> IF mcpValue.num = 0 THEN Frac(0, 1)
                        ELSE Times100(Over(delta, mcpValue))]

\* the SummaryDiff of one task and one metric
DiffOf(taskId, metric, mcp, cli) ==
  LET mcpValue == mcp[metric]
      cliValue == cli[metric]
      delta == Minus(cliValue, mcpValue)
  IN [taskId |-> taskId,
      metric |-> metric,
      mcp |-> mcpValue,
      cli |-> cliValue,
      delta |-> delta,
      percentChange |-> IF mcpValue.num = 0 THEN Frac(0, 1)
                        ELSE Times100(Over(delta, mcpValue))]

\* TaskDiffs, were a task skipped only when it has neither row
TaskDiffsEither(rowList, taskId) ==
  LET mcp == SlotOf(rowList, taskId, TRUE)
      cli == SlotOf(rowList, taskId, FALSE)
  IN IF mcp = Undefined /\ cli = Undefined THEN << >>
     ELSE [m \in 1..Len(DiffMetrics) |->
             DiffOf(taskId, DiffMetrics[m],
                    IF mcp = Undefined THEN cli ELSE mcp,
                    IF cli = Undefined THEN mcp ELSE cli)]

\* what the second loop pushes for one task
TaskDiffs(rowList, taskId) ==
  LET mcp == SlotOf(rowList, taskId, TRUE)
      cli == SlotOf(rowList, taskId, FALSE)
  IN IF mcp = Undefined \/ cli = Undefined THEN << >>
     ELSE [m \in 1..Len(DiffMetrics) |-> DiffOf(taskId, DiffMetrics[m], mcp, cli)]

RECURSIVE DiffsOfTasks(_, _)
DiffsOfTasks(rowList, order) ==
  IF order = << >> THEN << >>
  ELSE TaskDiffs(rowList, order[1]) \o DiffsOfTasks(rowList, Tail(order))

summarizeDiffs(rowList) == DiffsOfTasks(rowList, TaskOrder(rowList))

\* a SummaryRow of the task and the agent with the given averages of total
\* tokens and of tool calls; the other averages are those of baseRun
RowOf(taskId, agent, total, calls) ==
  [taskId |-> taskId, agent |-> agent, runs |-> 1,
   avgTotalTokens |-> total,
   avgPromptTokens |-> Frac(60, 1),
   avgCompletionTokens |-> Frac(40, 1),
   avgToolCallCount |-> calls,
   avgRetries |-> Frac(0, 1),
   avgErrors |-> Frac(0, 1),
   avgDurationMs |-> Frac(1000, 1)]

\* the rows summarizeDiffs may get: those of the tests of metrics.test.ts
\* (100 against 150, 0 against 10), a second row for one task and agent, and
\* a row of another task
RowInputs ==
  {RowOf(<<"task-a">>, <<"mcp">>, Frac(100, 1), Frac(2, 1)),
   RowOf(<<"task-a">>, <<"cli">>, Frac(150, 1), Frac(5, 2)),
   RowOf(<<"task-a">>, <<"mcp">>, Frac(0, 1), Frac(3, 1)),
   RowOf(<<"task-a">>, <<"cli">>, Frac(10, 1), Frac(2, 1)),
   RowOf(<<"task-b">>, <<"cli">>, Frac(150, 1), Frac(1, 1)),
   RowOf(<<"task-b">>, <<"mcp">>, Frac(400, 3), Frac(1, 1))}

\* a caller builds the rows
PushRow ==
  /\ diffs = Undefined
  /\ Len(rows) < MaxRows
  /\ \E row \in RowInputs : rows' = Append(rows, row)
  /\ UNCHANGED <<collectorVars, runnerVars, allRuns, summary, diffs, interval>>

\* summarizeDiffs(rows) is called
Diff ==
  /\ diffs = Undefined
  /\ diffs' = summarizeDiffs(rows)
  /\ UNCHANGED <<collectorVars, runnerVars, allRuns, summary, rows, interval>>

NextD == PushRow \/ Diff

SpecDiffs == InitC /\ [][NextD]_vars

----------------------------------------------------------------------------
(* wilsonInterval (plotStats.ts). Numbers are exact fractions, but for the  *)
(* result of Math.sqrt, which is one of the two neighbours of the root     *)
(* among the multiples of 1 / SqrtSteps: the rounded root may lie on       *)
(* either side of the exact one.                                           *)

SqrtSteps == 100

Plus(a, b) == Frac(a.num * b.den + b.num * a.den, a.den * b.den)

Times(a, b) == Frac(a.num * b.num, a.den * b.den)

\* the largest q with q * q <= n, for 0 <= n
RECURSIVE FloorRoot(_, _)
FloorRoot(n, q) == IF (q + 1) * (q + 1) > n THEN q ELSE FloorRoot(n, q + 1)

\* Math.sqrt(a) for a >= 0, rounded down (up = 0) or up (up = 1)
Sqrt(a, up) ==
  LET scaled == (a.num * SqrtSteps * SqrtSteps) \div a.den
      q == FloorRoot(scaled, 0)
  IN IF q * q * a.den = a.num * SqrtSteps * SqrtSteps THEN Frac(q, SqrtSteps)
     ELSE Frac(q + up, SqrtSteps)

\* Math.max(a, b), Math.min(a, b)
Less(a, b) == a.num * b.den < b.num * a.den
MathMax(a, b) == IF Less(a, b) THEN b ELSE a
MathMin(a, b) == IF Less(a, b) THEN a ELSE b

\* wilsonInterval, were low and high not clamped into [0, 1]
wilsonIntervalUnclamped(successes, total, up) ==
  IF total = 0 THEN [center |-> Frac(0, 1), low |-> Frac(0, 1), high |-> Frac(0, 1)]
  ELSE LET z == Frac(196, 100)
           phat == Frac(successes, total)
           denom == Plus(Frac(1, 1), Over(Times(z, z), Frac(total, 1)))
           center == Over(Plus(phat, Over(Times(z, z), Frac(2 * total, 1))), denom)
           half == Times(Over(z, denom),
                         Sqrt(Over(Plus(Times(phat, Minus(Frac(1, 1), phat)),
                                        Over(Times(z, z), Frac(4 * total, 1))),
                                   Frac(total, 1)), up))
       IN [center |-> center,
           low |-> Minus(center, half),
           high |-> Plus(center, half)]

\* wilsonInterval(successes, total), with the rounding of its Math.sqrt
wilsonInterval(successes, total, up) ==
  IF total = 0 THEN [center |-> Frac(0, 1), low |-> Frac(0, 1), high |-> Frac(0, 1)]
  ELSE LET z == Frac(196, 100)
           phat == Frac(successes, total)
           denom == Plus(Frac(1, 1), Over(Times(z, z), Frac(total, 1)))
           center == Over(Plus(phat, Over(Times(z, z), Frac(2 * total, 1))), denom)
           half == Times(Over(z, denom),
                         Sqrt(Over(Plus(Times(phat, Minus(Frac(1, 1), phat)),
                                        Over(Times(z, z), Frac(4 * total, 1))),
                                   Frac(total, 1)), up))
       IN [center |-> center,
           low |-> MathMax(Frac(0, 1), Minus(center, half)),
           high |-> MathMin(Frac(1, 1), Plus(center, half))]

\* the plot calls wilsonInterval(ok, total) with the successes among the runs
Wilson ==
  /\ \E total \in 0..MaxTotal, successes \in 0..MaxTotal, up \in {0, 1} :
       /\ successes <= total
       /\ interval' = [successes |-> successes, total |-> total,
                       returned |-> wilsonInterval(successes, total, up)]
  /\ UNCHANGED <<collectorVars, runnerVars, allRuns, summary, rows, diffs>>

NextW == Wilson

SpecWilson == InitC /\ [][NextW]_vars

----------------------------------------------------------------------------
\* baseRun of metrics.test.ts, with the model the runner puts in every record
BaseRun ==
  [taskId |-> <<"task-a">>, model |-> <<"default">>, agent |-> <<"mcp">>,
   runIndex |-> 0, totalTokens |-> 100, promptTokens |-> 60,
   completionTokens |-> 40, toolCallCount |-> 2, retries |-> 0, errors |-> 0,
   durationMs |-> 1000, success |-> TRUE]

\* the records main may collect: those of the tests of metrics.test.ts, a run
\* of the same task and agent under a second model, a failed run of another
\* task, and a run of a task whose id contains "::"
RunInputs ==
  {[BaseRun EXCEPT !.totalTokens = 100, !.promptTokens = 50, !.completionTokens = 50],
   [BaseRun EXCEPT !.totalTokens = 200, !.promptTokens = 80, !.completionTokens = 120,
                   !.runIndex = 1, !.toolCallCount = 3, !.durationMs = 1501],
   [BaseRun EXCEPT !.totalTokens = 150, !.promptTokens = 70, !.completionTokens = 80,
                   !.agent = <<"cli">>],
   [BaseRun EXCEPT !.model = <<"m2">>, !.totalTokens = 400, !.promptTokens = 300,
                   !.completionTokens = 100],
   [BaseRun EXCEPT !.taskId = <<"task-b">>, !.agent = <<"cli">>, !.totalTokens = 0,
                   !.promptTokens = 0, !.completionTokens = 0, !.toolCallCount = 1,
                   !.retries = 1, !.errors = 2, !.success = FALSE],
   [BaseRun EXCEPT !.taskId = <<"x", ":", ":", "y">>, !.totalTokens = 10,
                   !.promptTokens = 2, !.completionTokens = 8]}

\* main: allRuns.push(...runsForModel), one record at a time
PushRun ==
  /\ summary = Undefined
  /\ Len(allRuns) < MaxRuns
  /\ \E run \in RunInputs : allRuns' = Append(allRuns, run)
  /\ UNCHANGED <<collectorVars, runnerVars, summary, rows, diffs, interval>>

\* main: the summary is built from all the runs
Summarize ==
  /\ summary = Undefined
  /\ summary' = [kind |-> "object",
                 averages |-> summarizeRuns(allRuns),
                 deltas |-> summarizeDiffs(summarizeRuns(allRuns))]
  /\ UNCHANGED <<collectorVars, runnerVars, allRuns, rows, diffs, interval>>

NextS == PushRun \/ Summarize

SpecSummary == InitC /\ [][NextS]_vars

----------------------------------------------------------------------------
(* Reference counts over a history of spans *)

ToolsIn(seq) == {seq[i].tool : i \in {j \in 1..Len(seq) : seq[j].fn}}

\* unresolved failures of tool T after the first n spans of seq
RECURSIVE RefPending(_, _, _)
RefPending(seq, T, n) ==
  IF n = 0 THEN 0
  ELSE LET before == RefPending(seq, T, n - 1)
           e == seq[n]
       IN IF ~(e.fn /\ e.tool = T) THEN before
          ELSE IF e.err THEN before + 1
          ELSE IF before > 0 THEN before - 1
          ELSE before

\* the positions of seq that the greedy matching counts as retries of T
RefRetryAt(seq, T) ==
  {n \in 1..Len(seq) :
     /\ seq[n].fn /\ seq[n].tool = T /\ ~seq[n].err
     /\ RefPending(seq, T, n - 1) > 0}

RefRetriesOf(seq, T) == Cardinality(RefRetryAt(seq, T))

RECURSIVE RefRetriesIn(_, _)
RefRetriesIn(seq, S) ==
  IF S = {} THEN 0
  ELSE LET T == CHOOSE x \in S : TRUE
       IN RefRetriesOf(seq, T) + RefRetriesIn(seq, S \ {T})

RefRetries(seq) == RefRetriesIn(seq, ToolsIn(seq))
RefToolCalls(seq) == Cardinality({n \in 1..Len(seq) : seq[n].fn})
RefErrors(seq) == Cardinality({n \in 1..Len(seq) : seq[n].err})
RefFailuresOf(seq, T) ==
  Cardinality({n \in 1..Len(seq) : seq[n].fn /\ seq[n].tool = T /\ seq[n].err})

Call(T, failed) == [fn |-> TRUE, tool |-> T, err |-> failed]

Min(a, b) == IF a < b THEN a ELSE b

LastRun == runs[Len(runs)]

\* a step in which the span e was delivered under the registered id t
Delivered(t, e) ==
  /\ t \in DOMAIN log /\ t \in DOMAIN log'
  /\ log'[t] = Append(log[t], e)

EntryInputs == {LogEntry(span) : span \in SpanInputs}

----------------------------------------------------------------------------
(* Claims *)

\* C1: under the sequential schedule of run(), where an execution's trace is
\* started, its spans are delivered and its metrics are consumed before the
\* next execution begins, the toolCallCount, retries and errors of the
\* execution's RunMetrics record are the counts of the spans delivered under
\* its own trace id; spans that carry another id add nothing to it.
C1_OwnSpansOnly ==
  (pc \in {"loop", "done"} /\ runs # << >> /\ exec.traceId # Undefined) =>
     /\ LastRun.toolCallCount = RefToolCalls(exec.own)
     /\ LastRun.retries = RefRetries(exec.own)
     /\ LastRun.errors = RefErrors(exec.own)

\* C1 witness: the second execution's successful call of X is recorded on its
\* own, not as a retry of the first execution's failed call of X.
C1_Witness ==
  /\ pc = "loop" /\ Len(runs) = 2
  /\ runs[1].toolCallCount = 1 /\ runs[1].errors = 1 /\ runs[1].retries = 0
  /\ runs[2].toolCallCount = 1 /\ runs[2].errors = 0 /\ runs[2].retries = 0
  /\ exec.traceId = Str("2")
  /\ exec.own = <<Call("X", FALSE)>>

\* C2: the counters of every registered trace are those of the greedy matching
\* over the spans delivered to it, in arrival order; [error, success] of one
\* tool gives toolCallCount = 2, errors = 1, retries = 1.
C2_GreedyMatching ==
  \A t \in DOMAIN traces :
     /\ traces[t].retries = RefRetries(log[t])
     /\ traces[t].toolCallCount = RefToolCalls(log[t])
     /\ traces[t].errors = RefErrors(log[t])
     /\ \A T \in {"X", "unknown"} :
          log[t] = <<Call(T, TRUE), Call(T, FALSE)>> =>
             /\ traces[t].toolCallCount = 2
             /\ traces[t].errors = 1
             /\ traces[t].retries = 1

C2_Witness ==
  /\ "1" \in DOMAIN traces
  /\ log["1"] = <<Call("X", TRUE), Call("X", FALSE)>>
  /\ traces["1"].retries = 1

\* C3: every failure is resolved by at most one later success: for every tool
\* T, retries attributed to T plus pendingErrors[T] is the number of failed
\* calls of T, and k failures followed by m successes give min(k, m) retries.
C3_OneResolutionPerFailure ==
  \A t \in DOMAIN traces :
     /\ \A T \in {"X", "unknown"} :
          /\ RefRetriesOf(log[t], T) + PendingOf(traces[t], T) = RefFailuresOf(log[t], T)
          /\ \A k, m \in 0..Len(log[t]) :
               log[t] = [i \in 1..(k + m) |-> Call(T, i <= k)] =>
                  traces[t].retries = Min(k, m)
     /\ traces[t].retries + PendingOf(traces[t], "X") + PendingOf(traces[t], "unknown")
          = Cardinality({n \in 1..Len(log[t]) : log[t][n].fn /\ log[t][n].err})

C3_Witness ==
  /\ "1" \in DOMAIN traces
  /\ log["1"] = <<Call("X", TRUE), Call("X", TRUE), Call("X", FALSE)>>
  /\ traces["1"].retries = 1
  /\ PendingOf(traces["1"], "X") = 1

\* C4: a failed tool call never adds a retry, and a successful tool call adds
\* none when its tool has no unresolved failure; [success, error] of one tool
\* gives retries = 0 and errors = 1.
C4_Step ==
  \A t \in DOMAIN traces, e \in EntryInputs :
     (Delivered(t, e) /\ e.fn /\ (e.err \/ PendingOf(traces[t], e.tool) = 0)) =>
        traces'[t].retries = traces[t].retries

C4_SuccessThenError ==
  \A t \in DOMAIN traces, T \in {"X", "unknown"} :
     log[t] = <<Call(T, FALSE), Call(T, TRUE)>> =>
        traces[t].retries = 0 /\ traces[t].errors = 1

\* C4: no retry is added without an unresolved earlier failure of the same tool,
\* in every step, and [success, error] gives retries = 0, errors = 1.
C4_NoRetryWithoutPriorFailure == [][C4_Step]_vars /\ []C4_SuccessThenError

C4_Witness ==
  /\ "1" \in DOMAIN traces
  /\ log["1"] = <<Call("X", FALSE), Call("X", TRUE)>>
  /\ traces["1"].retries = 0
  /\ PendingOf(traces["1"], "X") = 1

\* C5: a retry is counted only for a failure and a later success of the same
\* tool in the same trace: a trace with retries has such a pair among its own
\* spans, and a span delivered to one trace changes no other trace.
C5_Scoped ==
  \A t \in DOMAIN traces :
     traces[t].retries > 0 =>
        \E i, j \in 1..Len(log[t]) :
           /\ i < j
           /\ log[t][i].fn /\ log[t][i].err
           /\ log[t][j].fn /\ ~log[t][j].err
           /\ log[t][i].tool = log[t][j].tool

C5_OtherTraces ==
  \A t \in DOMAIN traces, e \in EntryInputs :
     Delivered(t, e) =>
        \A u \in DOMAIN traces \ {t} : u \in DOMAIN traces' /\ traces'[u] = traces[u]

\* C5: retries are matched within one tool name and one trace only.
C5_SameToolSameTrace == []C5_Scoped /\ [][C5_OtherTraces]_vars

C5_Witness ==
  /\ DOMAIN traces = {"1", "2"}
  /\ log["1"] = <<Call("X", TRUE), Call("unknown", FALSE)>>
  /\ log["2"] = <<Call("X", FALSE)>>
  /\ traces["1"].retries = 0 /\ traces["2"].retries = 0

\* the README's reading of retry inference: a failed call of T followed by any
\* later call of T is one retry, whether or not the later call fails
RECURSIVE ReadmePending(_, _, _)
ReadmePending(seq, T, n) ==
  IF n = 0 THEN 0
  ELSE LET before == ReadmePending(seq, T, n - 1)
           e == seq[n]
           left == IF before > 0 THEN before - 1 ELSE before
       IN IF ~(e.fn /\ e.tool = T) THEN before
          ELSE IF e.err THEN left + 1 ELSE left

ReadmeRetriesOf(seq, T) ==
  Cardinality({n \in 1..Len(seq) :
                 /\ seq[n].fn /\ seq[n].tool = T
                 /\ ReadmePending(seq, T, n - 1) > 0})

RECURSIVE ReadmeRetriesIn(_, _)
ReadmeRetriesIn(seq, S) ==
  IF S = {} THEN 0
  ELSE LET T == CHOOSE x \in S : TRUE
       IN ReadmeRetriesOf(seq, T) + ReadmeRetriesIn(seq, S \ {T})

C7_Second ==
  Len(ret) = 2 => ret[2] = JsNull

C7_First ==
  (ret' # << >> /\ Truthy(latestTraceId) /\ latestTraceId.s \in DOMAIN traces) =>
     ret'[Len(ret')] = MetricsOf(traces[latestTraceId.s])

\* C7: consumeLatest is a destructive read: called twice in a row, it returns
\* the pending latest trace's metrics first and nothing the second time.
C7_DestructiveRead == []C7_Second /\ [][C7_First]_vars

C7_Witness ==
  /\ Len(ret) = 2
  /\ ret[1] # JsNull /\ ret[1].toolCallCount = 1
  /\ ret[2] = JsNull
  /\ DOMAIN traces = {}

\* C8 as stated: the state of every registered trace is eventually returned by
\* consumeLatest and removed from the map, a superseded trace included.
C8_EventuallyHarvested ==
  \A t \in {"1", "2"} : (t \in DOMAIN traces) ~> (t \notin DOMAIN traces)

\* C8 amended: a trace's state is harvested at most once and only while it is
\* the latest: a state leaves the map only in a consumeLatest call that
\* returns it, being the latest, and whatever consumeLatest returns it removes.
C8_Step ==
  /\ \A t \in DOMAIN traces :
       t \notin DOMAIN traces' =>
          /\ latestTraceId = Str(t)
          /\ ret' # << >>
          /\ ret'[Len(ret')] = MetricsOf(traces[t])
  /\ (ret' # << >> /\ ret'[Len(ret')] # JsNull) =>
       /\ ret'[Len(ret')].traceId \in DOMAIN traces
       /\ ret'[Len(ret')].traceId \notin DOMAIN traces'
       /\ ret'[Len(ret')] = MetricsOf(traces[ret'[Len(ret')].traceId])

\* C8 amended: every step harvests a trace at most once, and only the latest.
C8_HarvestedAtMostOnce == [][C8_Step]_vars

\* C8 witness: the latest trace was consumed, a second call returned nothing,
\* and the superseded trace is still in the map.
C8_Witness ==
  /\ Len(ret) = 2
  /\ ret[1] # JsNull /\ ret[1].traceId = "2"
  /\ ret[2] = JsNull
  /\ DOMAIN traces = {"1"}
  /\ Len(log["1"]) = 1

\* C9: every RunMetrics record of a failed run has errors >= 1.
C9_FailedRunHasError ==
  \A i \in 1..Len(runs) : ~runs[i].success => runs[i].errors >= 1

\* C10: runSingle never rejects, so run() never rejects and returns one record
\* for every (task, run index, agent).
C10_SweepNeverAborts ==
  /\ pc # "rejected"
  /\ pc = "done" => Len(runs) = 2 * Len(args.tasks) * args.runsPerTask

\* the place of an execution in the order of run(): tasks in list order, then
\* the run index, then mcp before cli
PlaceOf(task, runIndex, agent) ==
  (task - 1) * 2 * args.runsPerTask + 2 * runIndex + (IF agent = "mcp" THEN 1 ELSE 2)

ExecutionEnded == (pc \in {"loop", "done"} /\ runs # << >>) \/ pc = "rejected"

ConsumeCalls == {i \in 1..Len(exec.calls) : exec.calls[i] = "consumeLatest"}

\* C12: in every execution, on the success path and on the failure path,
\* consumeLatest is called only when a forceFlush has just completed, it is
\* not called while the execution is still awaited, and by the time the
\* execution has ended (so before the next one starts) it was called exactly
\* once.
C12_FlushThenConsumeOnce ==
  /\ \A i \in ConsumeCalls : i > 1 /\ exec.calls[i - 1] = "flushed"
  /\ Awaiting => ConsumeCalls = {}
  /\ ExecutionEnded => Cardinality(ConsumeCalls) = 1

\* two traces are pending at once: the latest one and the trace t
Concurrent(t) ==
  /\ Truthy(latestTraceId)
  /\ latestTraceId.s \in DOMAIN traces \ {t}
  /\ t \in DOMAIN traces

\* C13 as stated: when two traces are pending at once, a tool-call span of the
\* one that is not the latest is counted for the latest one.
C13_CountedForLatest ==
  [][\A t \in DOMAIN traces, e \in EntryInputs :
       (Concurrent(t) /\ Delivered(t, e) /\ e.fn) =>
          traces'[latestTraceId.s].toolCallCount =
             traces[latestTraceId.s].toolCallCount + 1]_vars

C13_Step ==
  /\ \A t \in DOMAIN traces, e \in EntryInputs :
       (Concurrent(t) /\ Delivered(t, e)) =>
          /\ traces'[latestTraceId.s] = traces[latestTraceId.s]
          /\ traces'[t].toolCallCount = traces[t].toolCallCount + (IF e.fn THEN 1 ELSE 0)
          /\ traces'[t].errors = traces[t].errors + (IF e.err THEN 1 ELSE 0)
  /\ (ret' # << >> /\ ret'[Len(ret')] # JsNull) =>
       /\ ret'[Len(ret')].traceId = latestTraceId.s
       /\ ret'[Len(ret')].toolCallCount = RefToolCalls(log[latestTraceId.s])
       /\ ret'[Len(ret')].errors = RefErrors(log[latestTraceId.s])
       /\ ret'[Len(ret')].retries = RefRetries(log[latestTraceId.s])
  /\ (ret # << >> /\ ret' # << >>) =>
       /\ ret'[Len(ret')] = JsNull
       /\ traces' = traces

\* C13 amended: when two traces are pending at once and their spans interleave,
\* every span is still counted for the trace whose id it carries and not for
\* the latest one; what goes wrong is the read: the first consumeLatest
\* returns the metrics of the most recently started trace (its own spans
\* only), whichever execution calls it, and the next consumeLatest returns
\* nothing and leaves the other trace in the map.
C13_LatestOnlyIsRead == [][C13_Step]_vars

\* C13 witness: traces 1 and 2 were pending together, each got a span of its
\* own, and the one consumeLatest so far returned trace 2 with its one call.
C13_Witness ==
  /\ Len(ret) = 1
  /\ ret[1] # JsNull /\ ret[1].traceId = "2"
  /\ ret[1].toolCallCount = 1 /\ ret[1].errors = 0
  /\ DOMAIN traces = {"1"}
  /\ log["1"] = <<Call("X", TRUE)>>
  /\ traces["1"].toolCallCount = 1 /\ traces["1"].errors = 1

\* C14: a span-end event whose trace id cannot be resolved, was never
\* registered, or is that of a trace already consumed (so: a span that carries
\* no id of a pending trace) is dropped: the onSpanEnd call leaves every
\* trace's counters, the key set of the map and the latest pointer as they
\* were, and creates no state.
C14_DroppedSpanChangesNothing ==
  [][(last' = "onSpanEnd" /\ log' = log) =>
        (traces' = traces /\ latestTraceId' = latestTraceId)]_vars

\* C14 witness: trace 1 was consumed while trace 2 is pending; then spans
\* arrived, the last of them dropped: nothing is counted, trace 1 has no state.
C14_Witness ==
  /\ last = "onSpanEnd"
  /\ latestTraceId = Str("1")
  /\ DOMAIN traces = {"2"}
  /\ log["2"] = << >>
  /\ traces["2"].toolCallCount = 0 /\ traces["2"].errors = 0

\* C15: every span-end event of a registered trace that carries an error
\* indicator raises the trace's error count by exactly 1, whatever the span's
\* type, and a span without an error indicator leaves the error count alone.
C15_ErrorsCountedForAnyType ==
  [][\A t \in DOMAIN traces, e \in EntryInputs :
       Delivered(t, e) =>
          traces'[t].errors = traces[t].errors + (IF e.err THEN 1 ELSE 0)]_vars

\* C15 witness: a failed span that is not a tool call, then a successful tool call
C15_Witness ==
  /\ "1" \in DOMAIN traces
  /\ log["1"] = <<[fn |-> FALSE, tool |-> "unknown", err |-> TRUE], Call("X", FALSE)>>
  /\ traces["1"].errors = 1

\* C16: only spans of type "function" are tool calls: a function span raises
\* toolCallCount by exactly 1, and a span of any other type leaves
\* toolCallCount, retries and the pending errors of every tool as they were.
C16_OnlyFunctionSpansAreToolCalls ==
  [][\A t \in DOMAIN traces, e \in EntryInputs :
       Delivered(t, e) =>
          IF e.fn
          THEN traces'[t].toolCallCount = traces[t].toolCallCount + 1
          ELSE /\ traces'[t].toolCallCount = traces[t].toolCallCount
               /\ traces'[t].retries = traces[t].retries
               /\ traces'[t].pendingErrorsByTool = traces[t].pendingErrorsByTool]_vars

\* C16 witness: a failed tool call with no name, then a successful span that is
\* not a tool call: one tool call, no retry, the failure still pending
C16_Witness ==
  /\ "1" \in DOMAIN traces
  /\ log["1"] = <<Call("unknown", TRUE), [fn |-> FALSE, tool |-> "unknown", err |-> FALSE]>>
  /\ traces["1"].toolCallCount = 1
  /\ traces["1"].retries = 0
  /\ PendingOf(traces["1"], "unknown") = 1

\* the identifier of a trace object as the collector's contract has it: the
\* first of traceId, id that is a string or a number, as text; "" when none
TextOf(v) == IF v.kind = "string" THEN v.s ELSE ToString(v.n)

RefTraceId(trace) ==
  IF trace.traceId.kind \in {"string", "number"} THEN TextOf(trace.traceId)
  ELSE IF trace.id.kind \in {"string", "number"} THEN TextOf(trace.id)
  ELSE ""

C17_Step ==
  \A trace \in TraceInputs :
     CollectorTraceStart(trace) =>
        LET id == RefTraceId(trace)
        IN IF id # ""
           THEN /\ latestTraceId' = Str(id)
                /\ DOMAIN traces' = DOMAIN traces \cup {id}
                /\ traces'[id].traceId = id
                /\ traces'[id].toolCallCount = 0
                /\ traces'[id].errors = 0
                /\ traces'[id].retries = 0
                /\ \A T \in {"X", "unknown"} : PendingOf(traces'[id], T) = 0
                /\ \A u \in DOMAIN traces \ {id} : traces'[u] = traces[u]
           ELSE /\ latestTraceId' = latestTraceId
                /\ traces' = traces

\* C17: onTraceStart with an identifier that can be determined registers a
\* state for that id with toolCallCount = errors = retries = 0 and no pending
\* errors and makes the id the latest; with an identifier that cannot be
\* determined it leaves the latest pointer and every trace state as they were.
C17_TraceStartRegistersOrIgnores == [][C17_Step]_vars

\* C17 witness: the last call was an onTraceStart that registered nothing:
\* trace 1 is still the latest and still has its count.
C17_Witness ==
  /\ last = "onTraceStart"
  /\ latestTraceId = Str("1")
  /\ DOMAIN traces = {"1", "2"}
  /\ traces["1"].toolCallCount = 1
  /\ traces["2"].toolCallCount = 0

\* the usage the executor reported with the current execution's result, and
\* one of its token counts (-1 when it is absent)
ReportedUsage ==
  IF exec.result.kind = "object" /\ "state" \in DOMAIN exec.result
  THEN exec.result.state.usage ELSE [kind |-> "object"]

Reported(field) ==
  IF field \in DOMAIN ReportedUsage /\ ReportedUsage[field].kind = "number"
  THEN ReportedUsage[field].n ELSE -1

\* C18: the record of a successful execution has promptTokens = the reported
\* inputTokens (0 if absent), completionTokens = the reported outputTokens (0
\* if absent) and totalTokens = the reported totalTokens when present,
\* otherwise promptTokens + completionTokens; the record of a failed
\* execution has all three at 0.
C18_TokenFields ==
  (pc \in {"loop", "done"} /\ runs # << >>) =>
     IF LastRun.success
     THEN /\ LastRun.promptTokens =
               (IF Reported("inputTokens") = -1 THEN 0 ELSE Reported("inputTokens"))
          /\ LastRun.completionTokens =
               (IF Reported("outputTokens") = -1 THEN 0 ELSE Reported("outputTokens"))
          /\ LastRun.totalTokens =
               (IF Reported("totalTokens") = -1
                THEN LastRun.promptTokens + LastRun.completionTokens
                ELSE Reported("totalTokens"))
     ELSE /\ LastRun.promptTokens = 0
          /\ LastRun.completionTokens = 0
          /\ LastRun.totalTokens = 0

\* C18 witness: two executions reported usage without a total; the first
\* succeeded and has the derived total, the second failed and has zeros
C18_Witness ==
  /\ pc = "loop" /\ Len(runs) = 2
  /\ runs[1].success
  /\ runs[1].promptTokens = 3 /\ runs[1].completionTokens = 4 /\ runs[1].totalTokens = 7
  /\ ~runs[2].success
  /\ Reported("inputTokens") = 3 /\ Reported("totalTokens") = -1
  /\ runs[2].totalTokens = 0

\* the positions in runList of the runs of one task and one agent
GroupOf(runList, taskId, agent) ==
  {i \in 1..Len(runList) : runList[i].taskId = taskId /\ runList[i].agent = agent}

\* the groups of runList in the order of their first run
FirstOfGroup(runList) ==
  {i \in 1..Len(runList) :
     \A j \in 1..(i - 1) : runList[j].taskId # runList[i].taskId
                           \/ runList[j].agent # runList[i].agent}

RECURSIVE SumOf(_, _, _)
SumOf(runList, field, S) ==
  IF S = {} THEN 0
  ELSE LET i == CHOOSE x \in S : TRUE
       IN runList[i][field] + SumOf(runList, field, S \ {i})

\* the fraction q is the arithmetic mean of the field over the runs at S
IsMean(q, runList, field, S) ==
  /\ q.den > 0
  /\ q.num * Cardinality(S) = SumOf(runList, field, S) * q.den

AvgFields ==
  {<<"avgTotalTokens", "totalTokens">>, <<"avgPromptTokens", "promptTokens">>,
   <<"avgCompletionTokens", "completionTokens">>, <<"avgToolCallCount", "toolCallCount">>,
   <<"avgRetries", "retries">>, <<"avgErrors", "errors">>,
   <<"avgDurationMs", "durationMs">>}

\* C19: summarizeRuns gives one SummaryRow for every group of runs (the runs of
\* one task and one agent), whose runs field is the number of runs of the
\* group and whose seven avg fields are the arithmetic means of the fields
\* over the group; two native runs with totals 100 and 200 give runs = 2 and
\* avgTotalTokens = 150.
C19_RowsAreGroupMeans ==
  summary # Undefined =>
     /\ Len(summary.averages) = Cardinality(FirstOfGroup(allRuns))
     /\ \A i \in FirstOfGroup(allRuns) :
          LET G == GroupOf(allRuns, allRuns[i].taskId, allRuns[i].agent)
              row == summary.averages[Cardinality({j \in FirstOfGroup(allRuns) : j <= i})]
          IN /\ row.runs = Cardinality(G)
             /\ \A f \in AvgFields : IsMean(row[f[1]], allRuns, f[2], G)
     /\ \A i, j \in 1..Len(allRuns) :
          (/\ i # j /\ Len(allRuns) = 2
           /\ allRuns[i].taskId = allRuns[j].taskId
           /\ allRuns[i].agent = <<"mcp">> /\ allRuns[j].agent = <<"mcp">>
           /\ allRuns[i].totalTokens = 100 /\ allRuns[j].totalTokens = 200) =>
             /\ summary.averages[1].runs = 2
             /\ summary.averages[1].avgTotalTokens = [num |-> 150, den |-> 1]

\* C19 witness: the runs of the test "averages runs per task/agent"
C19_Witness ==
  /\ summary # Undefined
  /\ Len(allRuns) = 3
  /\ allRuns[1].totalTokens = 100 /\ allRuns[1].agent = <<"mcp">>
  /\ allRuns[2].totalTokens = 200 /\ allRuns[2].agent = <<"mcp">>
  /\ allRuns[3].totalTokens = 150 /\ allRuns[3].agent = <<"cli">>
  /\ Len(summary.averages) = 2
  /\ summary.averages[1].runs = 2
  /\ summary.averages[1].avgTotalTokens = [num |-> 150, den |-> 1]
  /\ summary.averages[1].avgPromptTokens = [num |-> 65, den |-> 1]
  /\ summary.averages[1].avgToolCallCount = [num |-> 5, den |-> 2]
  /\ summary.averages[2].runs = 1
  /\ summary.averages[2].avgTotalTokens = [num |-> 150, den |-> 1]

\* C20: summarizeRuns groups by (task id, agent, model): runs of one task and
\* one agent under different models are never averaged together, so there is
\* one SummaryRow for every (task id, agent, model) among the runs.
C20_GroupedByModel ==
  summary # Undefined =>
     Len(summary.averages) =
        Cardinality({<<allRuns[i].taskId, allRuns[i].agent, allRuns[i].model>> :
                       i \in 1..Len(allRuns)})

\* the positions in rows of the rows of one task and one agent
RowsOf(taskId, agent) ==
  {i \in 1..Len(rows) : rows[i].taskId = taskId /\ rows[i].agent = agent}

\* the fraction q is a - b; the fraction q is (d / b) * 100
IsDifference(q, a, b) ==
  q.num * a.den * b.den = (a.num * b.den - b.num * a.den) * q.den

IsPercentOf(q, d, b) ==
  q.num * d.den * b.num = 100 * d.num * b.den * q.den

\* C21: in every SummaryDiff of summarizeDiffs, mcp and cli are the values of
\* the metric in a native and in a cli-wrapped row of the task, delta is
\* cli - mcp, and percentChange is 0 when the native value is 0 and
\* (delta / mcp) * 100 otherwise; 100 against 150 gives delta = 50 and
\* percentChange = 50, 0 against 10 gives percentChange = 0.
C21_DeltaAndPercentChange ==
  diffs # Undefined =>
     \A k \in 1..Len(diffs) :
        LET d == diffs[k]
        IN /\ \E i \in RowsOf(d.taskId, <<"mcp">>) : rows[i][d.metric] = d.mcp
           /\ \E i \in RowsOf(d.taskId, <<"cli">>) : rows[i][d.metric] = d.cli
           /\ d.delta.den > 0 /\ d.percentChange.den > 0
           /\ IsDifference(d.delta, d.cli, d.mcp)
           /\ IF d.mcp.num = 0 THEN d.percentChange.num = 0
              ELSE IsPercentOf(d.percentChange, d.delta, d.mcp)
           /\ (d.mcp = [num |-> 100, den |-> 1] /\ d.cli = [num |-> 150, den |-> 1]) =>
                 /\ d.delta = [num |-> 50, den |-> 1]
                 /\ d.percentChange = [num |-> 50, den |-> 1]
           /\ (d.mcp = [num |-> 0, den |-> 1] /\ d.cli = [num |-> 10, den |-> 1]) =>
                 d.percentChange = [num |-> 0, den |-> 1]

\* C21 witness: the rows of the test "computes deltas and percent changes"
C21_Witness ==
  /\ diffs # Undefined
  /\ Len(rows) = 2
  /\ Len(diffs) = 7
  /\ diffs[1].metric = "avgTotalTokens"
  /\ diffs[1].mcp = [num |-> 100, den |-> 1]
  /\ diffs[1].cli = [num |-> 150, den |-> 1]
  /\ diffs[1].delta = [num |-> 50, den |-> 1]
  /\ diffs[1].percentChange = [num |-> 50, den |-> 1]
  /\ diffs[4].metric = "avgToolCallCount"
  /\ diffs[4].delta = [num |-> 1, den |-> 2]
  /\ diffs[4].percentChange = [num |-> 25, den |-> 1]

\* C22: summarizeDiffs gives diffs only for the tasks that have both a native
\* and a cli-wrapped row: such a task gets exactly seven diffs, one for each
\* metric of the fixed set, and a task that lacks one of the two gets none;
\* the call ends without an error either way.
C22_OnlyTasksWithBothRows ==
  diffs # Undefined =>
     /\ \A k \in 1..Len(diffs) : \E i \in 1..Len(rows) : rows[i].taskId = diffs[k].taskId
     /\ \A i \in 1..Len(rows) :
          LET t == rows[i].taskId
              both == RowsOf(t, <<"mcp">>) # {} /\ RowsOf(t, <<"cli">>) # {}
              of == {k \in 1..Len(diffs) : diffs[k].taskId = t}
          IN IF both
             THEN /\ Cardinality(of) = 7
                  /\ \A m \in 1..Len(DiffMetrics) :
                       Cardinality({k \in of : diffs[k].metric = DiffMetrics[m]}) = 1
             ELSE of = {}

\* C22 witness: task-a has both rows and gets its seven diffs, task-b has only
\* a cli-wrapped row and gets none
C22_Witness ==
  /\ diffs # Undefined
  /\ Len(rows) = 3
  /\ RowsOf(<<"task-a">>, <<"mcp">>) # {} /\ RowsOf(<<"task-a">>, <<"cli">>) # {}
  /\ RowsOf(<<"task-b">>, <<"cli">>) # {} /\ RowsOf(<<"task-b">>, <<"mcp">>) = {}
  /\ Len(diffs) = 7
  /\ \A k \in 1..7 : diffs[k].taskId = <<"task-a">>

\* the last of the positions S
LastOf(S) == CHOOSE i \in S : \A j \in S : j <= i

\* C25: when summarizeDiffs gets more than one row of the same task and the
\* same agent, the diffs of the task carry the values of the one that is last
\* in the input.
C25_LastRowWins ==
  diffs # Undefined =>
     \A k \in 1..Len(diffs) :
        LET d == diffs[k]
        IN /\ d.mcp = rows[LastOf(RowsOf(d.taskId, <<"mcp">>))][d.metric]
           /\ d.cli = rows[LastOf(RowsOf(d.taskId, <<"cli">>))][d.metric]

\* C25 witness: two native rows of task-a, with 100 and then with 0 total
\* tokens, and one cli-wrapped row with 150: the diff is 0 against 150
C25_Witness ==
  /\ diffs # Undefined
  /\ Len(rows) = 3
  /\ Cardinality(RowsOf(<<"task-a">>, <<"mcp">>)) = 2
  /\ rows[1].avgTotalTokens = [num |-> 100, den |-> 1]
  /\ rows[LastOf(RowsOf(<<"task-a">>, <<"mcp">>))].avgTotalTokens = [num |-> 0, den |-> 1]
  /\ Len(diffs) = 7
  /\ diffs[1].mcp = [num |-> 0, den |-> 1]
  /\ diffs[1].cli = [num |-> 150, den |-> 1]
  /\ diffs[1].percentChange = [num |-> 0, den |-> 1]

\* C24: for all integers 0 <= successes <= total, wilsonInterval returns
\* 0 <= low <= center <= high <= 1, and wilsonInterval(0, 0) returns
\* center = low = high = 0.
C24_WilsonBounds ==
  interval # Undefined =>
     LET r == interval.returned
     IN /\ r.low.den > 0 /\ r.center.den > 0 /\ r.high.den > 0
        /\ r.low.num >= 0
        /\ ~Less(r.center, r.low)
        /\ ~Less(r.high, r.center)
        /\ ~Less([num |-> 1, den |-> 1], r.high)
        /\ interval.total = 0 =>
              r.center.num = 0 /\ r.low.num = 0 /\ r.high.num = 0

\* C24 witness: no success in three runs, the root rounded up, so that
\* center - half is below 0: low is clamped to 0
C24_Witness ==
  /\ interval # Undefined
  /\ interval.successes = 0 /\ interval.total = 3
  /\ interval.returned.low.num = 0
  /\ interval.returned.center.num > 0
  /\ Less(interval.returned.center, interval.returned.high)
  /\ Less(Plus(interval.returned.center, interval.returned.center),
          interval.returned.high)

\* C26: spans are routed by their own trace id, never by the latest pointer:
\* with several traces registered at once, an onSpanEnd call for a span that
\* carries the id of one of them counts the span in that trace's state (one
\* more tool call if it is a function span, one more error if it failed) and
\* leaves every other registered trace, the key set of the map and the
\* latest pointer as they were, whichever trace is the latest.
C26_Step ==
  \A t \in DOMAIN traces, e \in EntryInputs :
     (Cardinality(DOMAIN traces) > 1 /\ Delivered(t, e)) =>
        /\ DOMAIN traces' = DOMAIN traces
        /\ latestTraceId' = latestTraceId
        /\ \A u \in DOMAIN traces \ {t} : traces'[u] = traces[u]
        /\ traces'[t].toolCallCount =
              traces[t].toolCallCount + (IF e.fn THEN 1 ELSE 0)
        /\ traces'[t].errors = traces[t].errors + (IF e.err THEN 1 ELSE 0)

C26_RoutedByOwnId == [][C26_Step]_vars

\* C26 witness: trace 2 was started after trace 1 and both are pending; the
\* spans of the two traces interleaved, two for trace 1 and one for trace 2,
\* and each trace has counted its own.
C26_Witness ==
  /\ DOMAIN traces = {"1", "2"}
  /\ latestTraceId = Str("2")
  /\ last = "onSpanEnd"
  /\ log["1"] = <<Call("X", TRUE), Call("X", FALSE)>>
  /\ log["2"] = <<Call("X", TRUE)>>
  /\ traces["1"].toolCallCount = 2 /\ traces["1"].errors = 1
  /\ traces["1"].retries = 1
  /\ traces["2"].toolCallCount = 1 /\ traces["2"].errors = 1
  /\ traces["2"].retries = 0

\* C27: in every reachable state of the collector and for every registered
\* trace, every entry of pendingErrorsByTool is at least 0, retries is at
\* most errors, and twice retries is at most toolCallCount.
C27_CounterInvariants ==
  \A t \in DOMAIN traces :
     /\ \A T \in DOMAIN traces[t].pendingErrorsByTool :
          traces[t].pendingErrorsByTool[T] >= 0
     /\ traces[t].retries <= traces[t].errors
     /\ 2 * traces[t].retries <= traces[t].toolCallCount

\* C27 witness: a failed call of X and then a successful one are the whole of
\* trace 1: the three bounds are met with equality.
C27_Witness ==
  /\ DOMAIN traces = {"1"}
  /\ log["1"] = <<Call("X", TRUE), Call("X", FALSE)>>
  /\ traces["1"].retries = 1
  /\ traces["1"].errors = 1
  /\ traces["1"].toolCallCount = 2
  /\ traces["1"].pendingErrorsByTool["X"] = 0

\* C28: nothing leaks through the stale latest pointer: when an execution
\* that never started a trace has failed and its record has been pushed, the
\* consumeLatest call made for it returned null and the record has
\* toolCallCount = 0, retries = 0 and errors = 1, whatever the earlier runs'
\* traces counted and wherever latestTraceId still points.
C28_NoStaleMetrics ==
  (/\ pc \in {"loop", "done"}
   /\ runs # << >>
   /\ ~LastRun.success
   /\ exec.traceId = Undefined) =>
     /\ ret # << >> /\ ret[Len(ret)] = JsNull
     /\ LastRun.toolCallCount = 0
     /\ LastRun.retries = 0
     /\ LastRun.errors = 1

\* C28 witness: the first execution's trace counted a failed tool call and
\* was consumed; the second execution failed without starting a trace while
\* latestTraceId still held the first trace's id.
C28_Witness ==
  /\ pc = "loop"
  /\ Len(runs) = 2
  /\ runs[1].toolCallCount = 1 /\ runs[1].errors = 1
  /\ latestTraceId = Str("1")
  /\ exec.traceId = Undefined
  /\ exec.calls = <<"flushed", "consumeLatest">>
  /\ ~runs[2].success
  /\ runs[2].toolCallCount = 0 /\ runs[2].retries = 0 /\ runs[2].errors = 1

\* C29: onTraceStart for an id that is registered and not yet consumed
\* overwrites that trace's state: toolCallCount, errors, retries and the
\* pending errors are back at zero, the id is the latest, the key set and the
\* other traces are as before; and a consumeLatest that returns a trace
\* returns the counts of the spans delivered since that trace's last start.
C29_Step ==
  /\ \A trace \in TraceInputs :
       (CollectorTraceStart(trace) /\ RefTraceId(trace) \in DOMAIN traces) =>
          LET id == RefTraceId(trace)
          IN /\ traces'[id].toolCallCount = 0
             /\ traces'[id].errors = 0
             /\ traces'[id].retries = 0
             /\ \A T \in DOMAIN traces'[id].pendingErrorsByTool :
                  traces'[id].pendingErrorsByTool[T] = 0
             /\ latestTraceId' = Str(id)
             /\ DOMAIN traces' = DOMAIN traces
             /\ \A u \in DOMAIN traces \ {id} : traces'[u] = traces[u]
  /\ (last' = "consumeLatest" /\ ret'[Len(ret')] # JsNull) =>
       LET m == ret'[Len(ret')]
       IN /\ m.traceId \in DOMAIN log
          /\ m.toolCallCount = RefToolCalls(log[m.traceId])
          /\ m.errors = RefErrors(log[m.traceId])
          /\ m.retries = RefRetries(log[m.traceId])

C29_RestartOverwrites == [][C29_Step]_vars

\* C29 witness: trace 1 had counted two delivered spans when the last call,
\* an onTraceStart for id 1 again, put its state back to zero.
C29_Witness ==
  /\ last = "onTraceStart"
  /\ overwritten = 2
  /\ latestTraceId = Str("1")
  /\ "1" \in DOMAIN traces
  /\ log["1"] = << >>
  /\ traces["1"].toolCallCount = 0
  /\ traces["1"].errors = 0
  /\ traces["1"].retries = 0
  /\ PendingOf(traces["1"], "X") = 0

\* the rows of the summary that carry the task id and the agent of a run
RowsFor(run) ==
  {k \in 1..Len(summary.averages) :
     /\ summary.averages[k].taskId = run.taskId
     /\ summary.averages[k].agent = run.agent}

RECURSIVE RunsCounted(_)
RunsCounted(n) ==
  IF n = 0 THEN 0 ELSE summary.averages[n].runs + RunsCounted(n - 1)

\* C30: every input run is counted in exactly one SummaryRow, which carries
\* the run's own task id and agent: the runs fields of the rows sum to the
\* number of input runs, and there is exactly one row with the task id and
\* the agent of each run, its runs field counting the runs of that task id and
\* agent, for every task id, those that contain "::" included.
C30_RowsCarryRunIdentity ==
  summary # Undefined =>
     /\ RunsCounted(Len(summary.averages)) = Len(allRuns)
     /\ \A i \in 1..Len(allRuns) :
          /\ Cardinality(RowsFor(allRuns[i])) = 1
          /\ \A k \in RowsFor(allRuns[i]) :
               summary.averages[k].runs =
                  Cardinality({j \in 1..Len(allRuns) :
                                 /\ allRuns[j].taskId = allRuns[i].taskId
                                 /\ allRuns[j].agent = allRuns[i].agent})

====
